---------------------------- MODULE Spec2Model ----------------------------
(***************************************************************************)
(* Model of the PyANSYS generic GUI: the file validation of FileManager    *)
(* and the out-of-process launchers of ResultViewer and MechanicalViewer.  *)
(*                                                                         *)
(* A path is a sequence of one-character strings, so that os.path.splitext,*)
(* os.path.basename and str.lower are computed character by character.     *)
(***************************************************************************)
EXTENDS Integers, Sequences, FiniteSets, TLC

\* ------------------------------------------------------------------ bounds
MaxFiles == 1          \* longest list of paths a file dialog of a viewer returns
MaxPaths == 3          \* longest list of paths given to validate_files directly
MaxCalls == 2          \* calls of validate_files on one list
MaxLaunches == 2       \* launches triggered on one viewer instance

\* ------------------------------------------------------- string functions
sep == "/"
extsep == "."

UpperToLower ==
    [c \in {"R", "S", "T", "X", "Y"} |->
        CASE c = "R" -> "r" [] c = "S" -> "s" [] c = "T" -> "t" [] c = "X" -> "x"
          [] c = "Y" -> "y"]

\* (variant for checking: lower() forgotten, the extension is compared as typed)
lower_keeps_case(s) == s

\* str.lower(): every cased character is mapped to its lowercase form
lower(s) ==
    [i \in 1..Len(s) |-> IF s[i] \in DOMAIN UpperToLower THEN UpperToLower[s[i]] ELSE s[i]]

\* str.rfind(ch): the last index of ch in s, 0 when absent (Python: -1)
rfind(s, ch) ==
    IF \E i \in 1..Len(s) : s[i] = ch
    THEN CHOOSE i \in 1..Len(s) : s[i] = ch /\ \A j \in (i+1)..Len(s) : s[j] # ch
    ELSE 0

\* os.path.splitext(p): <<root, ext>>.  The extension starts at the last dot
\* of the last path component, unless that component has only dots before it.
splitext(p) ==
    LET sepIndex == rfind(p, sep)
        dotIndex == rfind(p, extsep)
    IN  IF dotIndex > sepIndex
           /\ \E k \in (sepIndex + 1)..(dotIndex - 1) : p[k] # extsep
        THEN <<SubSeq(p, 1, dotIndex - 1), SubSeq(p, dotIndex, Len(p))>>
        ELSE <<p, <<>> >>

\* os.path.basename(p): what follows the last separator
basename(p) == SubSeq(p, rfind(p, sep) + 1, Len(p))

\* ---------------------------------------------------------------- FileManager
\* FileManager.__init__
supported_mechanical_files == { <<".", "m", "e", "c", "h", "d", "a", "t">> }
supported_result_files == { <<".", "r", "s", "t">> }

\* the paths a file dialog can hand back (the dialog offers "All Files" too)
a_rst      == <<"a", ".", "r", "s", "t">>
a_RST      == <<"a", ".", "R", "S", "T">>
d_a_rst    == <<"d", "/", "a", ".", "r", "s", "t">>
c_txt      == <<"c", ".", "t", "x", "t">>
c_rst_txt  == <<"c", ".", "r", "s", "t", ".", "t", "x", "t">>
dotrst     == <<".", "r", "s", "t">>
d_rst_e    == <<"d", ".", "r", "s", "t", "/", "e">>
a_mechdat  == <<"a", ".", "m", "e", "c", "h", "d", "a", "t">>
b_rst      == <<"b", ".", "r", "s", "t">>

AllPaths == {a_rst, a_RST, d_a_rst, c_txt, c_rst_txt, dotrst, d_rst_e, a_mechdat, b_rst}

\* os.path.exists(file_path) against the set of existing paths
path_exists(file_path, existing) == file_path \in existing

\* (variant for checking: a warning for each rejected file)
one_warning_per_file(invalid_files) ==
    [i \in 1..Len(invalid_files) |-> <<basename(invalid_files[i])>>]

\* validate_files, if invalid_files: the warnings shown, each one the list of
\* basenames it names
invalid_files_warning(invalid_files) ==
    IF invalid_files # <<>>
    THEN << [i \in 1..Len(invalid_files) |-> basename(invalid_files[i])] >>
    ELSE <<>>

\* (variant for checking: the new element put in front)
list_insert_front(list, x) == <<x>> \o list

\* list.append(x)
list_append(list, x) == Append(list, x)

\* the loop of FileManager.validate_files, one iteration per call
RECURSIVE validate_loop(_, _, _, _, _)
validate_loop(files, supported_extensions, existing, valid_files, invalid_files) ==
    IF files = <<>>
    THEN [valid_files |-> valid_files, invalid_files |-> invalid_files]
    ELSE LET file_path == Head(files)
             file_ext == lower(splitext(file_path)[2])
         IN  IF path_exists(file_path, existing)
             THEN IF file_ext \in supported_extensions
                  THEN validate_loop(Tail(files), supported_extensions, existing,
                                     list_append(valid_files, file_path), invalid_files)
                  ELSE validate_loop(Tail(files), supported_extensions, existing,
                                     valid_files, list_append(invalid_files, file_path))
             ELSE validate_loop(Tail(files), supported_extensions, existing,
                                valid_files, list_append(invalid_files, file_path))

\* (variant for checking: a path that does not exist is put in neither list)
RECURSIVE validate_loop_drops_missing(_, _, _, _, _)
validate_loop_drops_missing(files, supported_extensions, existing, valid_files,
                            invalid_files) ==
    IF files = <<>>
    THEN [valid_files |-> valid_files, invalid_files |-> invalid_files]
    ELSE LET file_path == Head(files)
             file_ext == lower(splitext(file_path)[2])
         IN  IF path_exists(file_path, existing)
             THEN IF file_ext \in supported_extensions
                  THEN validate_loop_drops_missing(Tail(files), supported_extensions,
                           existing, Append(valid_files, file_path), invalid_files)
                  ELSE validate_loop_drops_missing(Tail(files), supported_extensions,
                           existing, valid_files, Append(invalid_files, file_path))
             ELSE validate_loop_drops_missing(Tail(files), supported_extensions,
                      existing, valid_files, invalid_files)

validate_files_drops_missing(files, supported_extensions, existing) ==
    LET r == validate_loop_drops_missing(files, supported_extensions, existing,
                                         <<>>, <<>>)
    IN  [valid_files   |-> r.valid_files,
         invalid_files |-> r.invalid_files,
         warnings      |-> invalid_files_warning(r.invalid_files)]

\* FileManager.validate_files: the accepted list it returns, the rejected list
\* it builds, and the warnings it shows (each one the list of basenames)
validate_files(files, supported_extensions, existing) ==
    LET r == validate_loop(files, supported_extensions, existing, <<>>, <<>>)
    IN  [valid_files   |-> r.valid_files,
         invalid_files |-> r.invalid_files,
         warnings      |-> invalid_files_warning(r.invalid_files)]

\* ------------------------------------- the file selector of the article
\* the loop of ANSYSFileSelector.validate_files, one iteration per call: a
\* path that does not exist is put in neither list
RECURSIVE selector_validate_loop(_, _, _, _, _)
selector_validate_loop(files, valid_extensions, existing, valid_files, invalid_files) ==
    IF files = <<>>
    THEN [valid_files |-> valid_files, invalid_files |-> invalid_files]
    ELSE LET file_path == Head(files)
             file_ext == lower(splitext(file_path)[2])
         IN  IF path_exists(file_path, existing)
             THEN IF file_ext \in valid_extensions
                  THEN selector_validate_loop(Tail(files), valid_extensions, existing,
                           list_append(valid_files, file_path), invalid_files)
                  ELSE selector_validate_loop(Tail(files), valid_extensions, existing,
                           valid_files, list_append(invalid_files, file_path))
             ELSE selector_validate_loop(Tail(files), valid_extensions, existing,
                      valid_files, invalid_files)

\* ANSYSFileSelector.validate_files, if invalid_files: invalid_names and the
\* one warning that lists them
selector_invalid_names(invalid_files) ==
    IF invalid_files # <<>>
    THEN << [i \in 1..Len(invalid_files) |-> basename(invalid_files[i])] >>
    ELSE <<>>

\* ANSYSFileSelector.validate_files of the article snippet: the accepted list
\* it returns, the rejected list it builds and the warnings it shows
selector_validate_files(files, valid_extensions, existing) ==
    LET r == selector_validate_loop(files, valid_extensions, existing, <<>>, <<>>)
    IN  [valid_files   |-> r.valid_files,
         invalid_files |-> r.invalid_files,
         warnings      |-> selector_invalid_names(r.invalid_files)]


\* ------------------------------------------------------------ environment
ResultDialogPaths == {a_rst, c_txt}             \* files offered to the result tab
MechanicalDialogPaths == {a_mechdat, a_rst}     \* and to the mechanical tab
None == {}                                      \* Python's None, for optional values

\* ------------------------------------------------- the generated scripts
\* What the calls a generated script makes into DPF, PyVista and matplotlib
\* do: TRUE when the call returns, FALSE when it raises.
OutcomeFields == {"load_simulation", "Model", "approach1", "approach2", "approach3",
                  "displacement", "plot", "fallback"}
Outcomes == [OutcomeFields -> BOOLEAN]

\* the run of a script so far: exit code (None while it runs), lines printed
\* on stdout, text on stderr, and the calls made in order
Run(code, stdout, stderr, calls) ==
    [code |-> code, stdout |-> stdout, stderr |-> stderr, calls |-> calls]

\* main(): except Exception as e: print, traceback.print_exc(), sys.exit(1)
general_error(stdout, calls) ==
    Run(1, Append(stdout, "General error"), <<"Traceback">>, calls)

\* main() of both scripts from "Try built-in plot method first" to the end of
\* the try block: result.plot(), then the matplotlib text figure; when both
\* raise, the message is printed and main() returns
plot_result(o, stdout, calls) ==
    IF o.plot
    THEN Run(0, stdout \o <<"Attempting to plot result...", "SUCCESS: result.plot() worked">>,
             <<>>, Append(calls, "result.plot"))
    ELSE LET out == stdout \o <<"Attempting to plot result...", "Error with result.plot()">>
             cs == calls \o <<"result.plot", "plt.show">>
         IN  IF o.fallback
             THEN Run(0, Append(out, "SUCCESS: Matplotlib fallback completed"), <<>>, cs)
             ELSE Run(0, Append(out, "All plotting methods failed"), <<>>, cs)

\* main() of the script create_von_mises_script writes
von_mises_main(o) ==
    LET simulation == o.load_simulation
        model == o.Model
        loaded == <<"Loading model from", IF simulation
                                          THEN "Successfully loaded with post.load_simulation()"
                                          ELSE "Error with post.load_simulation",
                    IF model THEN "Successfully loaded with dpf.Model()"
                             ELSE "Error with dpf.Model">>
        c0 == <<"post.load_simulation", "dpf.Model">>
    IN  IF ~model /\ ~simulation
        THEN general_error(loaded, c0)
        ELSE IF model /\ o.approach1
        THEN plot_result(o, loaded \o <<"Approach 1 successful">>, Append(c0, "approach1"))
        ELSE IF model /\ o.approach2
        THEN plot_result(o, loaded \o <<"Approach 1 failed", "Approach 2 successful">>,
                         c0 \o <<"approach1", "approach2">>)
        ELSE IF simulation /\ o.approach3
        THEN plot_result(o, loaded \o <<"Approach 1 failed", "Approach 2 failed",
                                       "Approach 3 successful">>,
                         c0 \o <<"approach1", "approach2", "approach3">>)
        ELSE general_error(loaded \o <<"Approach 1 failed", "Approach 2 failed",
                                      "Approach 3 failed">>,
                           c0 \o <<"approach1", "approach2", "approach3">>)

\* main() of the script create_total_deformation_script writes
total_deformation_main(o) ==
    IF ~o.load_simulation
    THEN general_error(<<>>, <<"post.load_simulation">>)
    ELSE IF ~o.Model
    THEN general_error(<<>>, <<"post.load_simulation", "dpf.Model">>)
    ELSE IF ~o.displacement
    THEN general_error(<<>>, <<"post.load_simulation", "dpf.Model", "displacement">>)
    ELSE plot_result(o, <<>>, <<"post.load_simulation", "dpf.Model", "displacement">>)

\* the script of a template, run with the outcomes o
generated_main(template, o) ==
    IF template = "von_mises" THEN von_mises_main(o) ELSE total_deformation_main(o)

\* What the child of a result launch can do, given the script text its
\* interpreter loaded (None when the file was not there) and whether the data
\* file named in it exists: exit code and text on stdout and stderr.  Neither
\* loader returns when the data file is missing.  Of the lines printed only the
\* last is kept.
ChildResults(child_script, data_exists) ==
    IF child_script = None
    THEN {[code |-> 2, stdout |-> <<>>, stderr |-> <<"can't open file">>]}
    ELSE {[code |-> r.code, stdout |-> <<r.stdout[Len(r.stdout)]>>, stderr |-> r.stderr] :
            r \in {generated_main(t.template, o) :
                     t \in child_script,
                     o \in {x \in Outcomes :
                              data_exists \/ (~x.load_simulation /\ ~x.Model)}}}

VARIABLES
    instance,             \* the viewer object under observation
    existing,             \* the data files that exist on the filesystem
    temp_files,           \* tempfile.gettempdir(): script path -> script text
    uuid_count,           \* number of uuid.uuid4() values drawn so far
    pyvista_available,    \* module flags of result_viewer, set at import
    dpf_available,
    messagebox,           \* dialog shown by the last UI event: <<kind, title, detail>>
    callback_exception,   \* exception the last UI event ended in (Tk prints it)
    widget_writers,       \* the threads that have written a Tk variable or widget
    ui_blocked,           \* the launch whose worker body the Tk main loop executes
    after_queue,          \* callbacks posted with parent_frame.after(0, ...)
    rv_selected_files,    \* ResultViewer.selected_files
    rv_file_tree,         \* rows of ResultViewer.file_tree (their paths)
    rv_interactive_btn,   \* state of ResultViewer.interactive_btn
    rv_status_var,        \* ResultViewer.status_var: <<text, count, detail>>
    rv_result_type,       \* ResultViewer.result_type
    rv_launches,          \* one record per run_script call, in order
    mv_selected_files,    \* MechanicalViewer.selected_files
    mv_file_tree,         \* rows of MechanicalViewer.file_tree (their paths)
    mv_tree_selection,    \* file_tree.selection(): the row picked, 0 for none
    mv_view_btn,          \* state of MechanicalViewer.view_btn
    mv_status_var,        \* MechanicalViewer.status_var: <<text, count, detail>>
    mv_launches,          \* one record per launch_interactive_viewer call
    vf_call,              \* arguments of a direct call of FileManager.validate_files
    vf_results,           \* what the calls made with these arguments returned
    sel_results,          \* what ANSYSFileSelector.validate_files returned for them
    script_call,          \* a generated script run on its own: template and outcomes
    script_results,       \* what the runs of that script ended in
    entry_call,           \* an entry point run as a process: which one, and its environment
    entry_run             \* that process: position, events so far, exit status

envVars == <<existing, temp_files, uuid_count, pyvista_available, dpf_available>>
uiVars == <<messagebox, callback_exception, widget_writers, ui_blocked, after_queue>>
rvVars == <<rv_selected_files, rv_file_tree, rv_interactive_btn, rv_status_var,
            rv_result_type, rv_launches>>
mvVars == <<mv_selected_files, mv_file_tree, mv_tree_selection, mv_view_btn,
            mv_status_var, mv_launches>>
vfVars == <<vf_call, vf_results, sel_results>>
scriptVars == <<script_call, script_results>>
entryVars == <<entry_call, entry_run>>
vars == <<instance, envVars, uiVars, rvVars, mvVars, vfVars, scriptVars, entryVars>>

NoDialog == <<"", "", <<>> >>
Status(text) == <<text, 0, <<>> >>
UIIdle == ui_blocked = None

\* what filedialog.askopenfilenames can return: a tuple of the offered paths
DialogChoices(paths) ==
    UNION {[1..n -> paths] : n \in 0..MaxFiles}

\* (variant for checking: the test of the returned list left out)
files_untested(files) == TRUE

\* select_files of both viewers, if files: a list is true when it is not empty
files_selected(files) == files # <<>>

\* update_file_list of both viewers: one row per file get_file_info finds
update_file_list(selected_files, exist) ==
    SelectSeq(selected_files, LAMBDA f : path_exists(f, exist))

\* ------------------------------------------------------------ ResultViewer
\* uuid.uuid4(): a value that was not returned before
uuid4(count) == count + 1

\* (variant for checking: one fixed file name, no uuid in it)
von_mises_script_path_fixed(id) == <<"von_mises_fix_", 0>>

\* the script path create_von_mises_script builds
von_mises_script_path(id) == <<"von_mises_fix_", id>>
\* the script path create_total_deformation_script builds
total_deformation_script_path(id) == <<"total_deformation_fix_", id>>

\* the script text: which template, and the data path substituted into it
script_text(template, file_path) == [template |-> template, file_path |-> file_path]

\* open(script_path, 'w') and f.write(...): the file is created or overwritten
write_file(files, path, text) ==
    [p \in DOMAIN files \cup {path} |-> IF p = path THEN text ELSE files[p]]

\* os.remove(path)
remove_file(files, path) == [p \in DOMAIN files \ {path} |-> files[p]]

\* (variant for checking: run_in_thread() called in the handler itself)
run_script_inline == "MainThread"

\* threading.Thread(target=run_in_thread, daemon=True).start(): the thread
\* that executes the body
run_script_thread == "Thread"

\* ResultViewer.__init__ / create_ui
RVInit ==
    /\ rv_selected_files = <<>>
    /\ rv_file_tree = <<>>
    /\ rv_interactive_btn = "disabled"
    /\ rv_status_var = Status("Ready - Select result type and .rst file to begin")
    /\ rv_result_type = "von_mises"
    /\ rv_launches = <<>>

\* ResultViewer.select_files, with FileManager.select_result_files inside
rv_select_files ==
    /\ instance = "ResultViewer" /\ UIIdle
    /\ \E files \in DialogChoices(ResultDialogPaths) :
         LET r == validate_files(files, supported_result_files, existing)
         IN  /\ messagebox' = IF r.warnings # <<>>
                              THEN <<"showwarning", "Invalid Files", r.warnings[1]>>
                              ELSE NoDialog
             /\ IF files_selected(r.valid_files)
                THEN /\ rv_selected_files' = r.valid_files
                     /\ rv_file_tree' = update_file_list(r.valid_files, existing)
                     /\ rv_interactive_btn' = "normal"
                     /\ rv_status_var' = <<"Selected file(s) - Ready for 3D visualization",
                                           Len(r.valid_files), <<>> >>
                     /\ widget_writers' = widget_writers \cup {"MainThread"}
                ELSE UNCHANGED <<rv_selected_files, rv_file_tree, rv_interactive_btn,
                                 rv_status_var, widget_writers>>
    /\ callback_exception' = ""
    /\ UNCHANGED <<instance, scriptVars, entryVars, envVars, ui_blocked, after_queue, rv_result_type,
                   rv_launches, mvVars, vfVars>>

\* the two radio buttons of create_result_type_selection
rv_set_result_type ==
    /\ instance = "ResultViewer" /\ UIIdle
    /\ \E v \in {"von_mises", "total_deformation"} :
         /\ v # rv_result_type
         /\ rv_result_type' = v
    /\ widget_writers' = widget_writers \cup {"MainThread"}
    /\ messagebox' = NoDialog
    /\ callback_exception' = ""
    /\ UNCHANGED <<instance, scriptVars, entryVars, envVars, ui_blocked, after_queue, rv_selected_files,
                   rv_file_tree, rv_interactive_btn, rv_status_var, rv_launches, mvVars, vfVars>>

\* a launch as run_script starts it
NewResultLaunch(file_path, script_path, thread, in_flight) ==
    [file_path |-> file_path, script_path |-> script_path, thread |-> thread,
     pc |-> "Popen", child |-> "none", child_script |-> None,
     return_code |-> None, output |-> None, report |-> None,
     in_flight |-> in_flight]
    \* report: what the user was told when the launch ended; in_flight: how many
    \* earlier launches had not ended when this one was triggered (both kept for
    \* the record)

\* (variant for checking: a value that is neither kind yields no kind)
script_kind_strict(result_type) ==
    IF result_type = "von_mises" THEN "von_mises"
    ELSE IF result_type = "total_deformation" THEN "total_deformation"
    ELSE "none"

\* open_interactive, if result_type == "von_mises": ... else: ...: the kind of
\* script created for a value of the selector
script_kind(result_type) ==
    IF result_type = "von_mises" THEN "von_mises" ELSE "total_deformation"

\* (variant for checking: the test of the module flags left out)
dependencies_unchecked(pyvista, dpf) == TRUE

\* the test open_interactive makes of the module flags
dependencies_available(pyvista, dpf) == pyvista /\ dpf

\* (variant for checking: a path that does not come from the selection)
some_result_file(selected_files) == a_RST

\* open_interactive: "Use first selected file", self.selected_files[0]
first_selected_file(selected_files) == selected_files[1]

\* ResultViewer.open_interactive, with create_*_script and run_script inside
rv_open_interactive ==
    /\ instance = "ResultViewer" /\ UIIdle
    /\ IF rv_selected_files = <<>>
       THEN /\ messagebox' = <<"showwarning", "No Files", <<>> >>
            /\ callback_exception' = ""
            /\ UNCHANGED <<temp_files, uuid_count, widget_writers, ui_blocked,
                           rv_status_var, rv_launches>>
       ELSE IF ~dependencies_available(pyvista_available, dpf_available)
       THEN /\ messagebox' = <<"showerror", "Missing Dependencies",
                               <<"Install with: pip install pyvista ansys-dpf-post">> >>
            /\ callback_exception' = ""
            /\ UNCHANGED <<temp_files, uuid_count, widget_writers, ui_blocked,
                           rv_status_var, rv_launches>>
       ELSE /\ uuid_count < MaxLaunches
            /\ LET file_path == first_selected_file(rv_selected_files)
                   result_type == rv_result_type
                   id == uuid4(uuid_count)
                   script_path == IF script_kind(result_type) = "von_mises"
                                  THEN von_mises_script_path(id)
                                  ELSE total_deformation_script_path(id)
                   text == script_text(script_kind(result_type), file_path)
                   thread == run_script_thread
               IN  /\ rv_status_var' = Status("Launching 3D interactive viewer...")
                   /\ widget_writers' = widget_writers \cup {"MainThread"}
                   /\ uuid_count' = id
                   /\ messagebox' = NoDialog
                   /\ \/ \* the script is written and run_script starts the thread
                         /\ temp_files' = write_file(temp_files, script_path, text)
                         /\ rv_launches' = Append(rv_launches,
                               NewResultLaunch(file_path, script_path, thread,
                                   Cardinality({k \in DOMAIN rv_launches :
                                                  rv_launches[k].pc # "done"})))
                         /\ ui_blocked' = IF thread = "MainThread"
                                          THEN {Len(rv_launches) + 1} ELSE ui_blocked
                         /\ callback_exception' = ""
                      \/ \* open(script_path, 'w') raises OSError: the handler ends
                         \* there, run_script is not reached
                         /\ callback_exception' = "OSError"
                         /\ UNCHANGED <<temp_files, rv_launches, ui_blocked>>
    /\ UNCHANGED <<instance, scriptVars, entryVars, existing, pyvista_available, dpf_available, after_queue,
                   rv_selected_files, rv_file_tree, rv_interactive_btn, rv_result_type,
                   mvVars, vfVars>>

\* the launch record i of the result viewer replaced by l
RVSet(i, l) == [rv_launches EXCEPT ![i] = l]

\* (variant for checking: the test of the return code inverted)
rv_status_for_inverted(return_code) ==
    IF return_code # 0
    THEN Status("3D visualization completed successfully")
    ELSE Status("Error in 3D visualization")

\* the status text run_in_thread sets for a return code
rv_status_for(return_code) ==
    IF return_code = 0
    THEN Status("3D visualization completed successfully")
    ELSE Status("Error in 3D visualization")

\* what a status text tells the user: the message and the detail given with it
ReportOf(status) == [status |-> status[1], detail |-> status[3]]

\* the finally block of run_in_thread: the script file is removed when it
\* exists (os.remove of the file this process created is taken to succeed)
rv_cleanup(script_path, files) ==
    IF script_path \in DOMAIN files THEN remove_file(files, script_path) ELSE files

\* run_in_thread from except Exception as e to the end of the finally block
rv_except_finally(i) ==
    LET l == rv_launches[i]
    IN  /\ rv_status_var' = <<"Error: ", 0, <<"str(e)">> >>
        /\ rv_launches' = RVSet(i, [l EXCEPT
               !.pc = "done", !.report = {ReportOf(<<"Error: ", 0, <<"str(e)">> >>)}])
        /\ widget_writers' = widget_writers \cup {l.thread}
        /\ temp_files' = rv_cleanup(l.script_path, temp_files)
        /\ ui_blocked' = IF l.thread = "MainThread" THEN None ELSE ui_blocked

\* run_in_thread: subprocess.Popen([sys.executable, script_path], ...).  The
\* interpreter of the child opens the script file when it starts.
rv_Popen(i) ==
    /\ instance = "ResultViewer"
    /\ i \in DOMAIN rv_launches
    /\ rv_launches[i].pc = "Popen"
    /\ LET l == rv_launches[i]
       IN  rv_launches' = RVSet(i, [l EXCEPT
               !.pc = "read", !.child = "running",
               !.child_script = IF l.script_path \in DOMAIN temp_files
                                THEN {temp_files[l.script_path]} ELSE None])
    /\ UNCHANGED <<instance, scriptVars, entryVars, envVars, uiVars, rv_selected_files, rv_file_tree,
                   rv_interactive_btn, rv_status_var, rv_result_type, mvVars, vfVars>>

\* run_in_thread: Popen raises OSError, no child exists
rv_Popen_raises(i) ==
    /\ instance = "ResultViewer"
    /\ i \in DOMAIN rv_launches
    /\ rv_launches[i].pc = "Popen"
    /\ rv_except_finally(i)
    /\ UNCHANGED <<instance, scriptVars, entryVars, existing, uuid_count, pyvista_available, dpf_available,
                   messagebox, callback_exception, after_queue, rv_selected_files,
                   rv_file_tree, rv_interactive_btn, rv_result_type, mvVars, vfVars>>

\* run_in_thread: the child runs the script it loaded and exits; the loop over
\* process.stdout ends at end of file, process.wait() returns the exit code,
\* the status text is set and the finally block runs
rv_read_wait(i) ==
    /\ instance = "ResultViewer"
    /\ i \in DOMAIN rv_launches
    /\ rv_launches[i].pc = "read"
    /\ rv_launches[i].child = "running"
    /\ LET l == rv_launches[i]
           data_exists == \E t \in l.child_script : path_exists(t.file_path, existing)
       IN  \E r \in ChildResults(l.child_script, data_exists) :
             LET return_code == r.code
                 output == r.stdout \o r.stderr
             IN  /\ rv_status_var' = rv_status_for(return_code)
                 /\ rv_launches' = RVSet(i, [l EXCEPT
                        !.pc = "done", !.child = "exited",
                        !.return_code = {return_code}, !.output = {output},
                        !.report = {ReportOf(rv_status_for(return_code))}])
                 /\ widget_writers' = widget_writers \cup {l.thread}
                 /\ temp_files' = rv_cleanup(l.script_path, temp_files)
                 /\ ui_blocked' = IF l.thread = "MainThread" THEN None ELSE ui_blocked
    /\ UNCHANGED <<instance, scriptVars, entryVars, existing, uuid_count, pyvista_available, dpf_available,
                   messagebox, callback_exception, after_queue, rv_selected_files,
                   rv_file_tree, rv_interactive_btn, rv_result_type, mvVars, vfVars>>

\* run_in_thread: reading process.stdout raises (a line that does not decode)
\* while the child runs; the child is neither waited for nor killed, and what
\* it does afterwards is seen by nobody
rv_read_raises(i) ==
    /\ instance = "ResultViewer"
    /\ i \in DOMAIN rv_launches
    /\ rv_launches[i].pc = "read"
    /\ rv_launches[i].child = "running"
    /\ rv_except_finally(i)
    /\ UNCHANGED <<instance, scriptVars, entryVars, existing, uuid_count, pyvista_available, dpf_available,
                   messagebox, callback_exception, after_queue, rv_selected_files,
                   rv_file_tree, rv_interactive_btn, rv_result_type, mvVars, vfVars>>

\* -------------------------------------------------------- MechanicalViewer
\* What interactive_worker.py can do as a child process: exit 0 after the
\* view was closed, or print "Error: ..." and exit 1, with or without text on
\* stderr.
MechChildResults(data_exists) ==
    {[code |-> 1, stdout |-> <<"Error: e">>, stderr |-> <<>>],
     [code |-> 1, stdout |-> <<"Error: e">>, stderr |-> <<"Traceback">>]}
    \cup (IF data_exists
          THEN {[code |-> 0, stdout |-> <<"File opened successfully">>, stderr |-> <<>>]}
          ELSE {})

\* threading.Thread(target=viewer_worker).start(): the thread that executes
\* the body
launch_interactive_viewer_thread == "Thread"

\* MechanicalViewer.__init__ / create_ui
MVInit ==
    /\ mv_selected_files = <<>>
    /\ mv_file_tree = <<>>
    /\ mv_tree_selection = 0
    /\ mv_view_btn = "disabled"
    /\ mv_status_var = Status("Ready - Select a .mechdat file to begin")
    /\ mv_launches = <<>>

\* (variant for checking: the new files added to the selection there was)
extend_selection(selected_files, files) == selected_files \o files

\* select_files: self.selected_files = files
replace_selection(selected_files, files) == files

\* MechanicalViewer.select_files, with FileManager.select_mechanical_files
\* inside; update_file_list deletes the rows, and with them the row selection
mv_select_files ==
    /\ instance = "MechanicalViewer" /\ UIIdle
    /\ \E files \in DialogChoices(MechanicalDialogPaths) :
         LET r == validate_files(files, supported_mechanical_files, existing)
         IN  /\ messagebox' = IF r.warnings # <<>>
                              THEN <<"showwarning", "Invalid Files", r.warnings[1]>>
                              ELSE NoDialog
             /\ IF files_selected(r.valid_files)
                THEN /\ mv_selected_files' = replace_selection(mv_selected_files, r.valid_files)
                     /\ mv_file_tree' = update_file_list(mv_selected_files', existing)
                     /\ mv_tree_selection' = 0
                     /\ mv_view_btn' = "normal"
                     /\ mv_status_var' = <<"Selected file(s) - Ready for interactive view",
                                           Len(r.valid_files), <<>> >>
                     /\ widget_writers' = widget_writers \cup {"MainThread"}
                ELSE UNCHANGED <<mv_selected_files, mv_file_tree, mv_tree_selection,
                                 mv_view_btn, mv_status_var, widget_writers>>
    /\ callback_exception' = ""
    /\ UNCHANGED <<instance, scriptVars, entryVars, envVars, ui_blocked, after_queue, mv_launches, rvVars, vfVars>>

\* MechanicalViewer.clear_selection
mv_clear_selection ==
    /\ instance = "MechanicalViewer" /\ UIIdle
    /\ mv_selected_files' = <<>>
    /\ mv_file_tree' = update_file_list(<<>>, existing)
    /\ mv_tree_selection' = 0
    /\ mv_view_btn' = "disabled"
    /\ mv_status_var' = Status("Ready - Select a .mechdat file to begin")
    /\ widget_writers' = widget_writers \cup {"MainThread"}
    /\ messagebox' = NoDialog
    /\ callback_exception' = ""
    /\ UNCHANGED <<instance, scriptVars, entryVars, envVars, ui_blocked, after_queue, mv_launches, rvVars, vfVars>>

\* the user clicks a row of file_tree (the Treeview of create_file_list_frame)
mv_click_row ==
    /\ instance = "MechanicalViewer" /\ UIIdle
    /\ \E k \in 1..Len(mv_file_tree) :
         /\ k # mv_tree_selection
         /\ mv_tree_selection' = k
    /\ messagebox' = NoDialog
    /\ callback_exception' = ""
    /\ UNCHANGED <<instance, scriptVars, entryVars, envVars, widget_writers, ui_blocked, after_queue,
                   mv_selected_files, mv_file_tree, mv_view_btn, mv_status_var,
                   mv_launches, rvVars, vfVars>>

\* a launch as launch_interactive_viewer starts it
NewMechanicalLaunch(file_path, thread) ==
    [file_path |-> file_path, thread |-> thread,
     pc |-> "run", child |-> "none", exception |-> None,
     return_code |-> None, stdout |-> None, stderr |-> None, report |-> None]

\* MechanicalViewer.open_interactive_view, with launch_interactive_viewer inside
mv_open_interactive_view ==
    /\ instance = "MechanicalViewer" /\ UIIdle
    /\ IF mv_selected_files = <<>>
       THEN /\ messagebox' = <<"showwarning", "No Files", <<>> >>
            /\ UNCHANGED <<widget_writers, ui_blocked, mv_status_var, mv_launches>>
       ELSE IF mv_tree_selection = 0
       THEN /\ messagebox' = <<"showwarning", "No Selection", <<>> >>
            /\ UNCHANGED <<widget_writers, ui_blocked, mv_status_var, mv_launches>>
       ELSE /\ Len(mv_launches) < MaxLaunches
            /\ LET file_path == mv_file_tree[mv_tree_selection]
                   thread == launch_interactive_viewer_thread
               IN  /\ mv_status_var' = Status("Launching interactive 3D viewer...")
                   /\ widget_writers' = widget_writers \cup {"MainThread"}
                   /\ mv_launches' = Append(mv_launches,
                                            NewMechanicalLaunch(file_path, thread))
                   /\ ui_blocked' = IF thread = "MainThread"
                                    THEN {Len(mv_launches) + 1} ELSE ui_blocked
            /\ messagebox' = NoDialog
    /\ callback_exception' = ""
    /\ UNCHANGED <<instance, scriptVars, entryVars, envVars, after_queue, mv_selected_files, mv_file_tree,
                   mv_tree_selection, mv_view_btn, rvVars, vfVars>>

\* the launch record i of the mechanical viewer replaced by l
MVSet(i, l) == [mv_launches EXCEPT ![i] = l]

\* viewer_worker up to subprocess.run: the worker script is found and the
\* child is spawned
mv_spawn(i) ==
    /\ instance = "MechanicalViewer"
    /\ i \in DOMAIN mv_launches
    /\ mv_launches[i].pc = "run"
    /\ mv_launches[i].child = "none"
    /\ mv_launches' = MVSet(i, [mv_launches[i] EXCEPT !.child = "running"])
    /\ UNCHANGED <<instance, scriptVars, entryVars, envVars, uiVars, mv_selected_files, mv_file_tree,
                   mv_tree_selection, mv_view_btn, mv_status_var, rvVars, vfVars>>

\* viewer_worker: the worker script is at neither place (FileNotFoundError) or
\* the spawn fails (OSError); except Exception as e posts
\* lambda: self.viewer_failed(str(e)), which reads e when it is called
mv_spawn_raises(i) ==
    /\ instance = "MechanicalViewer"
    /\ i \in DOMAIN mv_launches
    /\ mv_launches[i].pc = "run"
    /\ mv_launches[i].child = "none"
    /\ \E e \in {"FileNotFoundError", "OSError"} :
         /\ after_queue' = Append(after_queue,
               [fn |-> "viewer_failed", launch |-> i, error |-> <<e>>, free_e |-> TRUE])
         /\ mv_launches' = MVSet(i, [mv_launches[i] EXCEPT
               !.pc = "except_end", !.exception = {e}])
    /\ UNCHANGED <<instance, scriptVars, entryVars, envVars, messagebox, callback_exception, widget_writers,
                   ui_blocked, mv_selected_files, mv_file_tree, mv_tree_selection,
                   mv_view_btn, mv_status_var, rvVars, vfVars>>

\* (variant for checking: the success callback whatever the exit code)
mv_callback_success(i, return_code, stdout, stderr) ==
    [fn |-> "viewer_success", launch |-> i, error |-> <<>>, free_e |-> FALSE]

\* the callback viewer_worker posts when subprocess.run(check=True) is over:
\* viewer_success for exit code 0, else (CalledProcessError) viewer_failed
\* with stderr, or with stdout when stderr is empty
mv_callback_for(i, return_code, stdout, stderr) ==
    IF return_code = 0
    THEN [fn |-> "viewer_success", launch |-> i, error |-> <<>>, free_e |-> FALSE]
    ELSE [fn |-> "viewer_failed", launch |-> i,
          error |-> IF stderr # <<>> THEN stderr ELSE stdout, free_e |-> FALSE]

\* viewer_worker: the child exits, subprocess.run returns or raises
\* CalledProcessError, and the callback is posted
mv_run_returns(i) ==
    /\ instance = "MechanicalViewer"
    /\ i \in DOMAIN mv_launches
    /\ mv_launches[i].pc = "run"
    /\ mv_launches[i].child = "running"
    /\ LET l == mv_launches[i]
       IN  \E r \in MechChildResults(path_exists(l.file_path, existing)) :
             /\ after_queue' = Append(after_queue,
                                      mv_callback_for(i, r.code, r.stdout, r.stderr))
             /\ mv_launches' = MVSet(i, [l EXCEPT
                    !.pc = "done", !.child = "exited", !.return_code = {r.code},
                    !.stdout = {r.stdout}, !.stderr = {r.stderr}])
             /\ ui_blocked' = IF l.thread = "MainThread" THEN None ELSE ui_blocked
    /\ UNCHANGED <<instance, scriptVars, entryVars, envVars, messagebox, callback_exception, widget_writers,
                   mv_selected_files, mv_file_tree, mv_tree_selection, mv_view_btn,
                   mv_status_var, rvVars, vfVars>>

\* viewer_worker: the except clause ends, which unbinds e
mv_except_end(i) ==
    /\ instance = "MechanicalViewer"
    /\ i \in DOMAIN mv_launches
    /\ mv_launches[i].pc = "except_end"
    /\ LET l == mv_launches[i]
       IN  /\ mv_launches' = MVSet(i, [l EXCEPT !.pc = "done", !.exception = None])
           /\ ui_blocked' = IF l.thread = "MainThread" THEN None ELSE ui_blocked
    /\ UNCHANGED <<instance, scriptVars, entryVars, envVars, messagebox, callback_exception, widget_writers,
                   after_queue, mv_selected_files, mv_file_tree, mv_tree_selection,
                   mv_view_btn, mv_status_var, rvVars, vfVars>>

\* MechanicalViewer.viewer_success, run for launch i
viewer_success(i) ==
    /\ mv_status_var' = Status("Interactive 3D viewer completed successfully")
    /\ messagebox' = <<"showinfo", "Success", <<>> >>
    /\ mv_launches' = MVSet(i, [mv_launches[i] EXCEPT !.report =
          {[status |-> "Interactive 3D viewer completed successfully", detail |-> <<>>]}])
    /\ UNCHANGED <<mv_selected_files, mv_file_tree, mv_tree_selection, mv_view_btn>>

\* (variant for checking: the failure handler also resets the selection)
viewer_failed_clears(i, error) ==
    /\ mv_status_var' = Status("Viewer launch failed")
    /\ messagebox' = <<"showerror", "Viewer Error", error>>
    /\ mv_launches' = MVSet(i, [mv_launches[i] EXCEPT !.report =
          {[status |-> "Viewer launch failed", detail |-> error]}])
    /\ mv_selected_files' = <<>>
    /\ mv_file_tree' = <<>>
    /\ mv_tree_selection' = 0
    /\ mv_view_btn' = "disabled"

\* MechanicalViewer.viewer_failed(error), run for launch i
viewer_failed(i, error) ==
    /\ mv_status_var' = Status("Viewer launch failed")
    /\ messagebox' = <<"showerror", "Viewer Error", error>>
    /\ mv_launches' = MVSet(i, [mv_launches[i] EXCEPT !.report =
          {[status |-> "Viewer launch failed", detail |-> error]}])
    /\ UNCHANGED <<mv_selected_files, mv_file_tree, mv_tree_selection, mv_view_btn>>

\* the Tk main loop runs the callback at the head of the queue:
\* viewer_success, viewer_failed, or NameError when the lambda finds e unbound
mv_after_callback ==
    /\ instance = "MechanicalViewer" /\ UIIdle
    /\ after_queue # <<>>
    /\ LET cb == Head(after_queue)
           l == mv_launches[cb.launch]
       IN  /\ after_queue' = Tail(after_queue)
           /\ IF cb.free_e /\ l.exception = None
              THEN /\ callback_exception' = "NameError"
                   /\ messagebox' = NoDialog
                   /\ UNCHANGED <<widget_writers, mvVars>>
              ELSE /\ widget_writers' = widget_writers \cup {"MainThread"}
                   /\ callback_exception' = ""
                   /\ IF cb.fn = "viewer_success"
                      THEN viewer_success(cb.launch)
                      ELSE viewer_failed(cb.launch, cb.error)
    /\ UNCHANGED <<instance, scriptVars, entryVars, envVars, ui_blocked, rvVars, vfVars>>

\* ------------------------------------------------------------ environment
\* a file that is selected in the viewer is deleted outside the application
DeleteFile ==
    /\ \E p \in existing :
         /\ \/ \E k \in DOMAIN rv_selected_files : rv_selected_files[k] = p
            \/ \E k \in DOMAIN mv_selected_files : mv_selected_files[k] = p
         /\ existing' = existing \ {p}
    /\ UNCHANGED <<instance, scriptVars, entryVars, temp_files, uuid_count, pyvista_available, dpf_available,
                   uiVars, rvVars, mvVars, vfVars>>

Init ==
    /\ instance \in {"ResultViewer", "MechanicalViewer"}
    /\ existing = IF instance = "ResultViewer"
                  THEN ResultDialogPaths ELSE MechanicalDialogPaths
    /\ temp_files = <<>>
    /\ uuid_count = 0
    /\ pyvista_available \in (IF instance = "ResultViewer" THEN BOOLEAN ELSE {TRUE})
    /\ dpf_available \in (IF instance = "ResultViewer" THEN BOOLEAN ELSE {TRUE})
    /\ messagebox = NoDialog
    /\ callback_exception = ""
    /\ widget_writers = {"MainThread"}
    /\ ui_blocked = None
    /\ after_queue = <<>>
    /\ RVInit
    /\ MVInit
    /\ vf_call = None
    /\ vf_results = <<>>
    /\ sel_results = <<>>
    /\ script_call = None
    /\ script_results = <<>>
    /\ entry_call = None
    /\ entry_run = None

rv_worker == \E i \in 1..MaxLaunches :
    rv_Popen(i) \/ rv_Popen_raises(i) \/ rv_read_wait(i) \/ rv_read_raises(i)
mv_worker == \E i \in 1..MaxLaunches :
    mv_spawn(i) \/ mv_spawn_raises(i) \/ mv_run_returns(i) \/ mv_except_end(i)

Next ==
    \/ rv_select_files
    \/ rv_set_result_type
    \/ rv_open_interactive
    \/ rv_worker
    \/ mv_select_files
    \/ mv_clear_selection
    \/ mv_click_row
    \/ mv_open_interactive_view
    \/ mv_worker
    \/ mv_after_callback
    \/ DeleteFile

Spec == Init /\ [][Next]_vars

\* The worker threads run and their children exit: a worker that can step
\* does; the Tk main loop runs, so a posted callback is executed.  The user
\* is under no obligation.
Fairness ==
    /\ WF_vars(rv_worker)
    /\ WF_vars(mv_worker)
    /\ WF_vars(mv_after_callback)

SpecLive == Spec /\ Fairness

\* ------------------------------------------- FileManager called directly
Range(seq) == {seq[k] : k \in DOMAIN seq}

\* a list of at most MaxPaths paths, one of the two rules, and a filesystem
\* (only the paths of the list matter to the call)
InitValidate ==
    /\ instance \in {"FileManager", "ANSYSFileSelector"}
    /\ \E files \in UNION {[1..n -> AllPaths] : n \in 0..MaxPaths} :
         /\ vf_call \in {[files |-> files, supported_extensions |-> e] :
                           e \in {supported_mechanical_files, supported_result_files}}
         /\ existing \in SUBSET Range(files)
    /\ vf_results = <<>>
    /\ sel_results = <<>>
    /\ script_call = None
    /\ script_results = <<>>
    /\ entry_call = None
    /\ entry_run = None
    /\ temp_files = <<>>
    /\ uuid_count = 0
    /\ pyvista_available = TRUE
    /\ dpf_available = TRUE
    /\ messagebox = NoDialog
    /\ callback_exception = ""
    /\ widget_writers = {"MainThread"}
    /\ ui_blocked = None
    /\ after_queue = <<>>
    /\ RVInit
    /\ MVInit

\* (variant for checking: the call takes the accepted files off the filesystem)
fm_validate_files_moves ==
    /\ instance = "FileManager"
    /\ Len(vf_results) < MaxCalls
    /\ LET r == validate_files(vf_call.files, vf_call.supported_extensions, existing)
       IN  /\ vf_results' = Append(vf_results, r)
           /\ existing' = existing \ Range(r.valid_files)
           /\ messagebox' = IF r.warnings # <<>>
                            THEN <<"showwarning", "Invalid Files", r.warnings[1]>>
                            ELSE NoDialog
    /\ UNCHANGED <<instance, scriptVars, entryVars, temp_files, uuid_count, pyvista_available,
                   dpf_available, callback_exception, widget_writers, ui_blocked,
                   after_queue, rvVars, mvVars, vf_call, sel_results>>

\* file_manager.validate_files(files, supported_extensions)
fm_validate_files ==
    /\ instance = "FileManager"
    /\ Len(vf_results) < MaxCalls
    /\ LET r == validate_files(vf_call.files, vf_call.supported_extensions, existing)
       IN  /\ vf_results' = Append(vf_results, r)
           /\ messagebox' = IF r.warnings # <<>>
                            THEN <<"showwarning", "Invalid Files", r.warnings[1]>>
                            ELSE NoDialog
    /\ UNCHANGED <<instance, scriptVars, entryVars, envVars, callback_exception, widget_writers,
                   ui_blocked, after_queue, rvVars, mvVars, vf_call, sel_results>>

\* selector.validate_files(files, valid_extensions)
sel_validate_files ==
    /\ instance = "ANSYSFileSelector"
    /\ Len(sel_results) < MaxCalls
    /\ LET r == selector_validate_files(vf_call.files, vf_call.supported_extensions,
                                        existing)
       IN  /\ sel_results' = Append(sel_results, r)
           /\ messagebox' = IF r.warnings # <<>>
                            THEN <<"showwarning", "Invalid Files", r.warnings[1]>>
                            ELSE NoDialog
    /\ UNCHANGED <<instance, scriptVars, entryVars, envVars, callback_exception, widget_writers,
                   ui_blocked, after_queue, rvVars, mvVars, vf_call, vf_results>>

NextValidate == fm_validate_files \/ sel_validate_files

SpecValidate == InitValidate /\ [][NextValidate]_vars

\* ------------------------------------------- a generated script on its own
\* the values of the selector a script is asked for: the two of the radio
\* buttons and two that are neither
ResultTypes == {"von_mises", "total_deformation", "Von Mises Stress", ""}

\* a value of the selector and one outcome for each call the script can make
InitScript ==
    /\ instance = "GeneratedScript"
    /\ script_call \in [result_type : ResultTypes, o : Outcomes]
    /\ script_results = <<>>
    /\ entry_call = None
    /\ entry_run = None
    /\ existing = {}
    /\ vf_call = None
    /\ vf_results = <<>>
    /\ sel_results = <<>>
    /\ temp_files = <<>>
    /\ uuid_count = 0
    /\ pyvista_available = TRUE
    /\ dpf_available = TRUE
    /\ messagebox = NoDialog
    /\ callback_exception = ""
    /\ widget_writers = {"MainThread"}
    /\ ui_blocked = None
    /\ after_queue = <<>>
    /\ RVInit
    /\ MVInit

\* the script for the selector is created as in open_interactive, and
\* python script_path runs its main() to the end or to sys.exit
run_generated_script ==
    /\ instance = "GeneratedScript"
    /\ Len(script_results) < MaxCalls
    /\ LET template == script_kind(script_call.result_type)
           r == generated_main(template, script_call.o)
       IN  script_results' = Append(script_results,
               [template |-> template, code |-> r.code, stdout |-> r.stdout,
                stderr |-> r.stderr, calls |-> r.calls])
    /\ UNCHANGED <<instance, envVars, uiVars, rvVars, mvVars, vfVars, script_call,
                   entryVars>>

NextScript == run_generated_script

SpecScript == InitScript /\ [][NextScript]_vars

\* ------------------------------------------------------- the entry points
\* launch.check_dependencies: the names of the dependencies, in the order of
\* the dictionary
Dependencies == <<"tkinter", "pyvista", "ansys-dpf-post">>

\* launch.main: missing_deps, the dependencies not available, tkinter left out
missing_deps(deps) ==
    SelectSeq(Dependencies, LAMBDA dep : ~deps[dep] /\ dep # "tkinter")

\* what the user can type at the prompt of install_missing_dependencies (no
\* blanks around it), and what subprocess.run(["pip", "install", dep],
\* check=True) can do
Responses == { <<"y">>, <<"Y">>, <<"y", "e", "s">>, <<"n">> }
InstallOutcomes == {"installed", "CalledProcessError", "FileNotFoundError"}

\* what starting the application in main.main can do
GuiOutcomes == {"mainloop", "ImportError", "TclError", "ApplicationError"}

\* the loop of install_missing_dependencies over missing_deps: the events of
\* the installs made, and the exception that left the loop
RECURSIVE install_loop(_, _, _)
install_loop(deps, install, events) ==
    IF deps = <<>>
    THEN [events |-> events, raised |-> None]
    ELSE LET dep == Head(deps)
             ev == Append(events, <<"install", dep>>)
         IN  IF install[dep] = "FileNotFoundError"
             THEN [events |-> ev, raised |-> {"FileNotFoundError"}]
             ELSE install_loop(Tail(deps), install, ev)

\* launch.install_missing_dependencies(missing_deps): the offer, and the
\* installs when the answer, stripped and lowered, is y or yes
install_missing_dependencies(deps, stdin_open, response, install) ==
    IF deps = <<>>
    THEN [events |-> <<>>, raised |-> None]
    ELSE IF ~stdin_open
    THEN [events |-> << <<"install_offer">> >>, raised |-> {"EOFError"}]
    ELSE IF lower(response) \in { <<"y">>, <<"y", "e", "s">> }
    THEN install_loop(deps, install, << <<"install_offer">> >>)
    ELSE [events |-> << <<"install_offer">> >>, raised |-> None]

\* the exit status of python main.py: import tkinter at the top of the module,
\* then main() with its except Exception: ... sys.exit(1)
main_exit_status(tkinter, gui) ==
    IF ~tkinter THEN 1
    ELSE IF gui # "mainloop" THEN 1
    ELSE 0

\* a process as the interpreter starts it
NewProcess == [pc |-> "start", events |-> <<>>, gui_status |-> None, exit_status |-> None]

\* the process ends: status 0 when main() returned, 1 when an exception left it
Exited(run, events, status) ==
    [run EXCEPT !.pc = "exited", !.events = run.events \o events, !.exit_status = {status}]

\* launch.main up to the test of deps['tkinter']
launch_check_dependencies ==
    /\ instance = "launch.py"
    /\ entry_run.pc = "start"
    /\ entry_run' = IF entry_call.deps["tkinter"]
                    THEN [entry_run EXCEPT !.pc = "install",
                                           !.events = << <<"check_dependencies">> >>]
                    ELSE Exited(entry_run, << <<"check_dependencies">> >>, 0)
    /\ UNCHANGED <<instance, envVars, uiVars, rvVars, mvVars, vfVars, scriptVars,
                   entry_call>>

\* launch.main: if missing_deps: install_missing_dependencies(missing_deps)
launch_install ==
    /\ instance = "launch.py"
    /\ entry_run.pc = "install"
    /\ LET r == install_missing_dependencies(missing_deps(entry_call.deps),
                   entry_call.stdin_open, entry_call.response, entry_call.install)
       IN  entry_run' = IF r.raised # None
                        THEN Exited(entry_run, r.events, 1)
                        ELSE [entry_run EXCEPT !.pc = "find_main",
                                               !.events = entry_run.events \o r.events]
    /\ UNCHANGED <<instance, envVars, uiVars, rvVars, mvVars, vfVars, scriptVars,
                   entry_call>>

\* launch.main: main.py is looked for next to the launcher and started
launch_start_gui ==
    /\ instance = "launch.py"
    /\ entry_run.pc = "find_main"
    /\ entry_run' = IF entry_call.main_script_exists
                    THEN [entry_run EXCEPT !.pc = "gui",
                                           !.events = Append(entry_run.events, <<"start_gui">>)]
                    ELSE Exited(entry_run, <<>>, 0)
    /\ UNCHANGED <<instance, envVars, uiVars, rvVars, mvVars, vfVars, scriptVars,
                   entry_call>>

\* launch.main: subprocess.run([sys.executable, main_script], check=True) is
\* over; CalledProcessError is caught and main() returns
launch_gui_returns ==
    /\ instance = "launch.py"
    /\ entry_run.pc = "gui"
    /\ entry_run' = [Exited(entry_run, <<>>, 0) EXCEPT !.gui_status =
                        {main_exit_status(entry_call.deps["tkinter"], entry_call.gui)}]
    /\ UNCHANGED <<instance, envVars, uiVars, rvVars, mvVars, vfVars, scriptVars,
                   entry_call>>

\* python main.py run by the user
main_main ==
    /\ instance = "main.py"
    /\ entry_run.pc = "start"
    /\ entry_run' = Exited(entry_run, << <<"start_gui">> >>,
                           main_exit_status(entry_call.deps["tkinter"], entry_call.gui))
    /\ UNCHANGED <<instance, envVars, uiVars, rvVars, mvVars, vfVars, scriptVars,
                   entry_call>>

\* os.path.dirname(p): what precedes the last separator
dirname(p) == SubSeq(p, 1, rfind(p, sep) - 1)

\* interactive_worker: target_folder, as the directory and the name in it
mech_files_folder(mechdat_path) ==
    [directory |-> dirname(mechdat_path),
     name |-> splitext(basename(mechdat_path))[1] \o <<"_Mech_Files">>]

\* the steps of interactive_worker before the clean-up, in order, each of
\* which can raise
WorkerSteps == <<"import App", "App(version=242)", "app.open", "app.plot", "input">>

\* the environments of the worker: its arguments, the step that raises (0 for
\* none), what is at target_folder, whether shutil.rmtree raises, and whether
\* the input() of the except clause returns
d_a_mechdat == <<"d", "/">> \o a_mechdat
WorkerCalls ==
    [argv : {<<a_mechdat>>, <<d_a_mechdat>>, <<>>, <<a_mechdat, a_rst>>},
     raises : 0..Len(WorkerSteps),
     target : {"absent", "directory", "file"},
     rmtree_raises : BOOLEAN,
     stdin_open : BOOLEAN]

\* (variant for checking: shutil.rmtree called without try/except)
delete_mech_files_unguarded(target_folder, target, rmtree_raises) ==
    IF target = "directory"
    THEN IF rmtree_raises
         THEN [events |-> << <<"rmtree", target_folder, "failed">> >>, raised |-> TRUE]
         ELSE [events |-> << <<"rmtree", target_folder, "removed">>,
                             <<"print", "Deleted folder">> >>, raised |-> FALSE]
    ELSE [events |-> <<>>, raised |-> FALSE]

\* interactive_worker, "Delete _Mech_Files folder if it exists": the events,
\* and whether an exception leaves the block
delete_mech_files(target_folder, target, rmtree_raises) ==
    IF target = "directory"
    THEN IF rmtree_raises
         THEN [events |-> << <<"rmtree", target_folder, "failed">>,
                             <<"print", "Error deleting folder">> >>, raised |-> FALSE]
         ELSE [events |-> << <<"rmtree", target_folder, "removed">>,
                             <<"print", "Deleted folder">> >>, raised |-> FALSE]
    ELSE [events |-> <<>>, raised |-> FALSE]

\* interactive_worker, except Exception as e: print, input, sys.exit(1); an
\* EOFError of that input() ends the process with a traceback and status 1
worker_except(events, stdin_open) ==
    [events |-> events \o << <<"print", "Error: e">> >>
                       \o (IF stdin_open THEN <<>> ELSE << <<"traceback", "EOFError">> >>),
     exit_status |-> 1]

\* the module body of interactive_worker.py run with the environment w
interactive_worker(w) ==
    IF Len(w.argv) # 1 /\ w.raises # 1
    THEN [events |-> << <<"print", "Usage">> >>, exit_status |-> 1]
    ELSE IF w.raises # 0 \/ ~w.stdin_open
    THEN LET last == IF w.raises # 0 THEN w.raises ELSE Len(WorkerSteps)
         IN  worker_except([k \in 1..last |-> <<"call", WorkerSteps[k]>>], w.stdin_open)
    ELSE LET calls == [k \in 1..Len(WorkerSteps) |-> <<"call", WorkerSteps[k]>>]
             d == delete_mech_files(mech_files_folder(w.argv[1]), w.target, w.rmtree_raises)
         IN  IF d.raised
             THEN worker_except(calls \o d.events, w.stdin_open)
             ELSE [events |-> calls \o d.events, exit_status |-> 0]

\* python interactive_worker.py <mechdat_file_path>
interactive_worker_main ==
    /\ instance = "interactive_worker.py"
    /\ entry_run.pc = "start"
    /\ LET r == interactive_worker(entry_call)
       IN  entry_run' = Exited(entry_run, r.events, r.exit_status)
    /\ UNCHANGED <<instance, envVars, uiVars, rvVars, mvVars, vfVars, scriptVars,
                   entry_call>>

\* the environments of the launcher and of main.py
EntryCalls ==
    [deps : [{"tkinter", "pyvista", "ansys-dpf-post"} -> BOOLEAN],
     stdin_open : BOOLEAN,
     response : Responses,
     install : [{"pyvista", "ansys-dpf-post"} -> InstallOutcomes],
     main_script_exists : BOOLEAN,
     gui : GuiOutcomes]

\* an entry point, and an environment for it
InitEntry ==
    /\ instance \in {"launch.py", "main.py", "interactive_worker.py"}
    /\ entry_call \in (IF instance = "interactive_worker.py"
                       THEN WorkerCalls ELSE EntryCalls)
    /\ entry_run = NewProcess
    /\ script_call = None
    /\ script_results = <<>>
    /\ existing = {}
    /\ vf_call = None
    /\ vf_results = <<>>
    /\ sel_results = <<>>
    /\ temp_files = <<>>
    /\ uuid_count = 0
    /\ pyvista_available = TRUE
    /\ dpf_available = TRUE
    /\ messagebox = NoDialog
    /\ callback_exception = ""
    /\ widget_writers = {"MainThread"}
    /\ ui_blocked = None
    /\ after_queue = <<>>
    /\ RVInit
    /\ MVInit

NextEntry ==
    \/ launch_check_dependencies
    \/ launch_install
    \/ launch_start_gui
    \/ launch_gui_returns
    \/ main_main
    \/ interactive_worker_main

SpecEntry == InitEntry /\ [][NextEntry]_vars

\* ================================================================ claims
SuccessTexts == {"3D visualization completed successfully",
                 "Interactive 3D viewer completed successfully"}
FailureTexts == {"Error in 3D visualization", "Error: ", "Viewer launch failed"}

RunningResult == {i \in DOMAIN rv_launches : rv_launches[i].child = "running"}
RunningMechanical == {i \in DOMAIN mv_launches : mv_launches[i].child = "running"}

\* C1: in every reachable state at most one child process per viewer instance
\* is running (a trigger during a launch spawns no second child).
C1_AtMostOneChildRunning ==
    /\ Cardinality(RunningResult) <= 1
    /\ Cardinality(RunningMechanical) <= 1

\* C2: the worker threads never write a Tk variable or widget; every write is
\* made by the thread of the Tk main loop.
C2_OnlyMainThreadWritesWidgets == widget_writers \subseteq {"MainThread"}

Count(seq, p) == Cardinality({k \in DOMAIN seq : seq[k] = p})

\* C3: validate_files puts every input path, counted by position, in exactly
\* one of the accepted and the rejected list: the lengths add up, no path is
\* in both, and each path occurs in the two lists together as often as in the
\* input.
C3_Partition ==
    \A n \in DOMAIN vf_results :
        LET r == vf_results[n]
            files == vf_call.files
        IN  /\ Len(r.valid_files) + Len(r.invalid_files) = Len(files)
            /\ Range(r.valid_files) \cap Range(r.invalid_files) = {}
            /\ \A p \in AllPaths :
                  Count(files, p) = Count(r.valid_files, p) + Count(r.invalid_files, p)

\* a call that accepted a path, rejected an existing one and rejected a
\* missing one
C3_Witness ==
    \E n \in DOMAIN vf_results :
        /\ vf_results[n].valid_files # <<>>
        /\ \E k \in DOMAIN vf_results[n].invalid_files :
              vf_results[n].invalid_files[k] \in existing
        /\ \E k \in DOMAIN vf_results[n].invalid_files :
              vf_results[n].invalid_files[k] \notin existing

\* two characters that are the same letter in either case
SameLetter(c, d) ==
    c = d \/ {c, d} \in {{"r", "R"}, {"s", "S"}, {"t", "T"}, {"x", "X"}}

\* the path ends in one of the extensions, whatever the case of its letters,
\* and the extension is preceded by a file name that is not only dots
FinalSuffixAccepted(p, extensions) ==
    \E e \in extensions :
        LET k == Len(p) - Len(e) + 1
        IN  /\ k >= 2
            /\ \A j \in 1..Len(e) : SameLetter(p[k + j - 1], e[j])
            /\ \E m \in 1..(k - 1) :
                  /\ p[m] # extsep
                  /\ \A q \in m..(k - 1) : p[q] # sep

\* C4: validate_files accepts a path if and only if the path exists and its
\* final suffix, compared without regard to case, is an extension of the rule.
C4_AcceptedIffExistsAndSuffix ==
    \A n \in DOMAIN vf_results :
        \A k \in DOMAIN vf_call.files :
            LET p == vf_call.files[k]
            IN  (p \in Range(vf_results[n].valid_files))
                <=> (p \in existing
                     /\ FinalSuffixAccepted(p, vf_call.supported_extensions))

\* a call that accepted an upper-case extension, rejected an existing file of
\* another extension and rejected a missing file of the right extension
C4_Witness ==
    \E n \in DOMAIN vf_results :
        /\ a_RST \in Range(vf_results[n].valid_files)
        /\ \E p \in Range(vf_results[n].invalid_files) :
              p \in existing /\ ~FinalSuffixAccepted(p, vf_call.supported_extensions)
        /\ \E p \in Range(vf_results[n].invalid_files) :
              p \notin existing /\ FinalSuffixAccepted(p, vf_call.supported_extensions)

\* the launches of both viewers that told the user how they ended
Reported == {rv_launches[i] : i \in {k \in DOMAIN rv_launches :
                                        rv_launches[k].report # None}}
            \cup {mv_launches[i] : i \in {k \in DOMAIN mv_launches :
                                             mv_launches[k].report # None}}

\* C5: a launch is reported as succeeded if and only if the exit code obtained
\* from its child is zero; with any other exit code it is reported as failed,
\* and a result launch that ended has been reported.
C5_SucceededIffExitZero ==
    /\ \A l \in Reported : \A r \in l.report :
          /\ r.status \in SuccessTexts \cup FailureTexts
          /\ r.status \in SuccessTexts <=> l.return_code = {0}
          /\ (l.return_code # None /\ l.return_code # {0}) => r.status \in FailureTexts
    /\ \A i \in DOMAIN rv_launches :
          rv_launches[i].pc = "done" => rv_launches[i].report # None

\* one launch reported as succeeded and one reported as failed with exit code 1
C5_Witness ==
    /\ \E l \in Reported : l.return_code = {0}
    /\ \E l \in Reported : l.return_code = {1}

\* C6: when the child exited with a non-zero code, the failure reported to the
\* user carries the text captured from the child's output.
C6_FailureCarriesOutput ==
    /\ \A i \in DOMAIN rv_launches :
          LET l == rv_launches[i]
          IN  (l.report # None /\ l.return_code # None /\ l.return_code # {0})
              => \A r \in l.report : {r.detail} = l.output
    /\ \A i \in DOMAIN mv_launches :
          LET l == mv_launches[i]
          IN  (l.report # None /\ l.return_code # None /\ l.return_code # {0})
              => \A r \in l.report : \A o \in l.stdout : \A e \in l.stderr :
                    r.detail = o \o e

\* C7: the script file of a result launch exists as long as its child runs and
\* no longer exists once the launch has ended.
C7_ScriptDeletedAfterChildExit ==
    \A i \in DOMAIN rv_launches :
        LET l == rv_launches[i]
        IN  /\ l.pc = "done" => l.script_path \notin DOMAIN temp_files
            /\ l.child = "running" => l.script_path \in DOMAIN temp_files

TemplateOf(script_path) ==
    IF script_path[1] = "von_mises_fix_" THEN "von_mises" ELSE "total_deformation"

\* C8: any two launches of the result viewer use distinct script paths; the
\* script of a launch is there until that launch removes it, and the child of
\* a launch runs the script written for that launch.
C8_UniqueScriptPerLaunch ==
    /\ \A i, j \in DOMAIN rv_launches :
          i # j => rv_launches[i].script_path # rv_launches[j].script_path
    /\ \A i \in DOMAIN rv_launches :
          LET l == rv_launches[i]
          IN  /\ l.pc # "done" => l.script_path \in DOMAIN temp_files
              /\ l.child # "none" =>
                    l.child_script = {script_text(TemplateOf(l.script_path), l.file_path)}

\* two launches of the same kind whose children run at the same time
C8_Witness ==
    \E i, j \in RunningResult :
        /\ i # j
        /\ rv_launches[i].script_path[1] = rv_launches[j].script_path[1]

\* C9: the handler that triggers a launch never executes the worker body: the
\* Tk main loop is not held by a launch, so it handles events while a child
\* runs.
C9_MainLoopNeverWaits ==
    /\ ui_blocked = None
    /\ \A i \in DOMAIN rv_launches : rv_launches[i].thread # "MainThread"
    /\ \A i \in DOMAIN mv_launches : mv_launches[i].thread # "MainThread"

\* a child runs and the result type was changed since its launch was triggered
C9_Witness ==
    \E i \in RunningResult :
        /\ rv_launches[i].pc = "read"
        /\ TemplateOf(rv_launches[i].script_path) # rv_result_type

\* a step in which a launch of the result viewer ends
CompletesResult ==
    \E i \in DOMAIN rv_launches :
        rv_launches[i].pc # "done" /\ rv_launches'[i].pc = "done"
\* a step in which a completion handler of the mechanical viewer runs
CompletesMechanical ==
    \E i \in DOMAIN mv_launches :
        mv_launches[i].report = None /\ mv_launches'[i].report # None

\* C10 as stated: when a launch ends, the viewer is in FilesSelected (files
\* selected, launch button enabled) and selection and file list are unchanged.
C10_EndsInFilesSelected ==
    [][/\ CompletesResult =>
            /\ UNCHANGED <<rv_selected_files, rv_file_tree>>
            /\ rv_selected_files' # <<>> /\ rv_interactive_btn' = "normal"
       /\ CompletesMechanical =>
            /\ UNCHANGED <<mv_selected_files, mv_file_tree>>
            /\ mv_selected_files' # <<>> /\ mv_view_btn' = "normal"]_vars

\* C10 amended: the end of a launch changes neither the selection, nor the
\* file list, nor the state of the launch button; the result viewer is then
\* in FilesSelected, the mechanical viewer is unless the selection was cleared
\* while the launch was in flight.
C10_CompletionKeepsSelection ==
    [][/\ CompletesResult =>
            /\ UNCHANGED <<rv_selected_files, rv_file_tree, rv_interactive_btn>>
            /\ rv_selected_files' # <<>> /\ rv_interactive_btn' = "normal"
       /\ CompletesMechanical =>
            /\ UNCHANGED <<mv_selected_files, mv_file_tree, mv_view_btn>>
            /\ mv_view_btn' = "normal" <=> mv_selected_files' # <<>>]_vars

\* a failed launch of the mechanical viewer was reported and the viewer is in
\* FilesSelected
C10_Witness ==
    \E i \in DOMAIN mv_launches :
        /\ \E r \in mv_launches[i].report : r.status = "Viewer launch failed"
        /\ mv_selected_files # <<>>
        /\ mv_view_btn = "normal"
        /\ mv_file_tree = mv_selected_files

LaunchingText == "Launching 3D interactive viewer..."

\* C11: when writing the script file has failed in open_interactive, the user
\* is shown a failure and the status is no longer the launching message.
C11_SetupFailureReported ==
    callback_exception = "OSError" =>
        /\ rv_status_var[1] # LaunchingText
        /\ messagebox[1] = "showerror"

\* C12: with PyVista or DPF Post absent, no script is generated, no launch is
\* started and the status never shows the launching message or a process
\* failure; open_interactive, called with files selected, shows the error
\* dialog "Missing Dependencies", which names the install command, and changes
\* nothing else.
C12_MissingDependencyReported ==
    /\ [](~(pyvista_available /\ dpf_available) =>
            /\ rv_launches = <<>>
            /\ temp_files = <<>>
            /\ uuid_count = 0
            /\ rv_status_var[1] \notin {LaunchingText} \cup SuccessTexts \cup FailureTexts
            /\ messagebox[2] # "Viewer Error")
    /\ [][(rv_open_interactive /\ rv_selected_files # <<>>
           /\ ~(pyvista_available /\ dpf_available)) =>
            /\ messagebox' = <<"showerror", "Missing Dependencies",
                               <<"Install with: pip install pyvista ansys-dpf-post">> >>
            /\ UNCHANGED <<envVars, rvVars, widget_writers, after_queue>>]_vars

\* the dependency error is on the screen, a file is selected and nothing was
\* launched
C12_Witness ==
    /\ ~(pyvista_available /\ dpf_available)
    /\ rv_selected_files # <<>>
    /\ messagebox[2] = "Missing Dependencies"
    /\ rv_launches = <<>>

\* the position of a call in the calls of a run, 0 when it was not made
CallIndex(calls, c) ==
    IF \E k \in DOMAIN calls : calls[k] = c
    THEN CHOOSE k \in DOMAIN calls : calls[k] = c
    ELSE 0

\* C13: in a run of a generated script the fallback rendering is attempted
\* only after the direct plot was attempted and failed, and the run ends with a
\* non-zero exit code if and only if no attempt succeeded; a run in which every
\* plotting attempt failed does not exit with code zero.
C13_FailedIffAllAttemptsFailed ==
    \A n \in DOMAIN script_results :
        LET r == script_results[n]
            o == script_call.o
            plotted == CallIndex(r.calls, "result.plot") > 0 /\ o.plot
            fellback == CallIndex(r.calls, "plt.show") > 0 /\ o.fallback
        IN  /\ CallIndex(r.calls, "plt.show") > 0 =>
                  /\ CallIndex(r.calls, "result.plot") > 0
                  /\ CallIndex(r.calls, "result.plot") < CallIndex(r.calls, "plt.show")
                  /\ ~o.plot
            /\ r.code # 0 <=> ~(plotted \/ fellback)

\* what follows the last "/" of a path
LastComponent(p) ==
    LET starts == {k \in 1..(Len(p) + 1) :
                      /\ \A j \in k..Len(p) : p[j] # sep
                      /\ k > 1 => p[k - 1] = sep}
    IN  SubSeq(p, CHOOSE k \in starts : TRUE, Len(p))

\* C14: a call of validate_files that rejects a path shows exactly one
\* warning, which lists the basenames of all rejected paths in order; a call
\* that rejects none, the call on the empty list included, shows no warning
\* and returns the accepted list.
C14_OneWarningForAllRejected ==
    \A n \in DOMAIN vf_results :
        LET r == vf_results[n]
        IN  /\ r.invalid_files # <<>> =>
                  /\ Len(r.warnings) = 1
                  /\ Len(r.warnings[1]) = Len(r.invalid_files)
                  /\ \A i \in DOMAIN r.invalid_files :
                        r.warnings[1][i] = LastComponent(r.invalid_files[i])
                  /\ messagebox = <<"showwarning", "Invalid Files", r.warnings[1]>>
            /\ r.invalid_files = <<>> =>
                  /\ r.warnings = <<>>
                  /\ messagebox = NoDialog
                  /\ r.valid_files = vf_call.files

\* a call that rejected two paths, one of them inside a directory
C14_Witness ==
    \E n \in DOMAIN vf_results :
        /\ Len(vf_results[n].invalid_files) >= 2
        /\ \E i \in DOMAIN vf_results[n].invalid_files :
              vf_results[n].warnings[1][i] # vf_results[n].invalid_files[i]

FailedResult == {i \in DOMAIN rv_launches :
                    /\ rv_launches[i].pc = "done"
                    /\ \E r \in rv_launches[i].report : r.status \in FailureTexts}
SucceededResult == {i \in DOMAIN rv_launches :
                       /\ rv_launches[i].pc = "done"
                       /\ \E r \in rv_launches[i].report : r.status \in SuccessTexts}

\* the requirements on a failed launch i and a succeeded launch j that was
\* triggered after the launches before it had ended, but for the children
SequentialPair(i, j) ==
    (i < j /\ rv_launches[j].in_flight = 0) =>
        /\ rv_launches[i].script_path # rv_launches[j].script_path
        /\ rv_launches[i].script_path \notin DOMAIN temp_files
        /\ rv_launches[j].script_path \notin DOMAIN temp_files

\* the end of a launch with a success sets the status to the success message
SuccessShown ==
    \A j \in DOMAIN rv_launches :
        (j \notin SucceededResult /\ j \in SucceededResult') =>
            rv_status_var'[1] \in SuccessTexts

\* C16: after a result launch that failed, the viewer is in FilesSelected
\* (selection intact, launch button enabled); when a second launch, triggered
\* after the first had ended, succeeds, the status becomes the success
\* message, the two launches used distinct script files, and each script is
\* gone with its own child no longer running.
C16_FailThenSucceed ==
    /\ [](\A i \in FailedResult :
            /\ rv_selected_files # <<>>
            /\ rv_interactive_btn = "normal"
            /\ \A j \in SucceededResult :
                  /\ SequentialPair(i, j)
                  /\ (i < j /\ rv_launches[j].in_flight = 0) =>
                        /\ rv_launches[i].child # "running"
                        /\ rv_launches[j].child # "running")
    /\ [][SuccessShown]_vars

\* C16 without the requirement on the children
C16_ExceptChildren ==
    /\ [](\A i \in FailedResult :
            /\ rv_selected_files # <<>>
            /\ rv_interactive_btn = "normal"
            /\ \A j \in SucceededResult : SequentialPair(i, j))
    /\ [][SuccessShown]_vars

\* a step in which the worker of result launch i obtains the exit code of its
\* child while the data file of the launch does not exist
EndsWithoutData(i) ==
    /\ rv_launches[i].pc = "read"
    /\ rv_launches'[i].pc = "done"
    /\ rv_launches'[i].return_code # None
    /\ rv_launches[i].file_path \notin existing

\* a trigger of a launch whose selected file was deleted is not stopped by a
\* validation: the launch starts as for a file that exists
NotRevalidated ==
    (/\ rv_open_interactive
     /\ rv_selected_files # <<>>
     /\ rv_selected_files[1] \notin existing
     /\ pyvista_available /\ dpf_available) =>
        /\ rv_status_var' = Status(LaunchingText)
        /\ messagebox' = NoDialog
        /\ \/ callback_exception' = "OSError"
           \/ /\ Len(rv_launches') = Len(rv_launches) + 1
              /\ rv_launches'[Len(rv_launches')].file_path = rv_selected_files[1]

\* the child of a launch without its data file exits non-zero, the launch is
\* reported as failed and its script file is gone
FailsWithoutData(i) ==
    /\ rv_launches'[i].return_code # {0}
    /\ \A r \in rv_launches'[i].report : r.status \in FailureTexts
    /\ rv_launches'[i].report # None
    /\ rv_launches[i].script_path \notin DOMAIN temp_files'

\* C17: a launch triggered for a selected file that was deleted is started
\* without a new validation; its child exits with a non-zero code, the failure
\* reported carries the text captured from the child, and the script file no
\* longer exists afterwards.
C17_DeletedFileFailsAtLaunch ==
    [][/\ NotRevalidated
       /\ \A i \in DOMAIN rv_launches :
             EndsWithoutData(i) =>
                 /\ FailsWithoutData(i)
                 /\ \A r \in rv_launches'[i].report :
                       {r.detail} = rv_launches'[i].output]_vars

\* C17 without the requirement that the report carries the captured text
C17_ExceptErrorText ==
    [][/\ NotRevalidated
       /\ \A i \in DOMAIN rv_launches :
             EndsWithoutData(i) => FailsWithoutData(i)]_vars

\* C18: the script created for a value of the selector is of exactly one of
\* the two kinds: the Von Mises script for "von_mises", the Total Deformation
\* script for "total_deformation", and for any other value the Total
\* Deformation script too (no error, no missing script); the script run is the
\* one of that kind.
C18_OneScriptOfOneKind ==
    \A n \in DOMAIN script_results :
        LET r == script_results[n]
            result_type == script_call.result_type
        IN  /\ r.template \in {"von_mises", "total_deformation"}
            /\ result_type = "von_mises" <=> r.template = "von_mises"
            /\ result_type = "total_deformation" => r.template = "total_deformation"
            /\ r.code \in {0, 1}
            /\ r.template = "von_mises" <=> CallIndex(r.calls, "displacement") = 0
                                             /\ r.stdout # <<>>
                                             /\ r.stdout[1] = "Loading model from"

\* a script was created and run for a value that is neither kind
C18_Witness ==
    \E n \in DOMAIN script_results :
        /\ script_call.result_type \notin {"von_mises", "total_deformation"}
        /\ script_results[n].template = "total_deformation"
        /\ CallIndex(script_results[n].calls, "displacement") > 0

\* the position of an event in the events of a process, 0 when absent
EventIndex(events, e) ==
    IF \E k \in DOMAIN events : events[k] = e
    THEN CHOOSE k \in DOMAIN events : events[k] = e
    ELSE 0

\* the launcher has ended
LauncherExited == instance = "launch.py" /\ entry_run.pc = "exited"

\* C19: the launcher checks the dependencies first, offers the install only
\* when PyVista or DPF Post is missing, and starts the GUI process after that;
\* with tkinter available it has started the GUI process when it ends,
\* whatever became of the install; with tkinter unavailable it ends with
\* neither an install offer nor a GUI start.
C19_LauncherOrder ==
    instance = "launch.py" =>
        LET ev == entry_run.events
            offer == EventIndex(ev, <<"install_offer">>)
            start == EventIndex(ev, <<"start_gui">>)
        IN  /\ ev # <<>> => ev[1] = <<"check_dependencies">>
            /\ offer > 0 => missing_deps(entry_call.deps) # <<>>
            /\ (start > 0 /\ missing_deps(entry_call.deps) # <<>>) => (0 < offer /\ offer < start)
            /\ \A k \in DOMAIN ev : ev[k][1] = "install" => (offer < k /\ (start = 0 \/ k < start))
            /\ (LauncherExited /\ entry_call.deps["tkinter"]) => start > 0
            /\ (LauncherExited /\ ~entry_call.deps["tkinter"]) => (offer = 0 /\ start = 0)

\* C19 for a launcher that finds main.py, reads an answer and finds pip
C19_WhenNothingRaises ==
    (/\ instance = "launch.py"
     /\ entry_call.main_script_exists
     /\ entry_call.stdin_open
     /\ \A d \in DOMAIN entry_call.install : entry_call.install[d] # "FileNotFoundError")
    => C19_LauncherOrder

\* C20: a process that ended with the windowing toolkit unavailable (tkinter
\* cannot be imported) or failing to initialize (creating the root window or
\* the application raises in main.py) ended with a non-zero exit status.
C20_ToolkitFailureExitsNonZero ==
    /\ (LauncherExited /\ ~entry_call.deps["tkinter"]) => entry_run.exit_status # {0}
    /\ (instance = "main.py" /\ entry_run.pc = "exited"
        /\ (~entry_call.deps["tkinter"] \/ entry_call.gui \in {"TclError", "ApplicationError"}))
       => entry_run.exit_status # {0}

\* C20 for main.py alone
C20_MainOnly ==
    (instance = "main.py" /\ entry_run.pc = "exited"
     /\ (~entry_call.deps["tkinter"] \/ entry_call.gui \in {"TclError", "ApplicationError"}))
    => entry_run.exit_status # {0}

\* a path validate_files is to accept: it exists and ends in an extension of
\* the rule
ToAccept(p) ==
    p \in existing /\ FinalSuffixAccepted(p, vf_call.supported_extensions)

\* C21: the accepted list is the input with the rejected paths left out, the
\* rejected list the input with the accepted paths left out, each in the order
\* of the input, and the warning names the rejected paths in that order; for
\* [a.mechdat, b.rst, c.txt], the mechanical rule and all three files existing,
\* accepted is [a.mechdat] and rejected is [b.rst, c.txt].
C21_OrderOfInputKept ==
    \A n \in DOMAIN vf_results :
        LET r == vf_results[n]
        IN  /\ r.valid_files = SelectSeq(vf_call.files, ToAccept)
            /\ r.invalid_files = SelectSeq(vf_call.files, LAMBDA p : ~ToAccept(p))
            /\ r.invalid_files # <<>> =>
                  r.warnings[1] = [i \in 1..Len(r.invalid_files) |->
                                      LastComponent(r.invalid_files[i])]
            /\ (/\ vf_call.files = <<a_mechdat, b_rst, c_txt>>
                /\ vf_call.supported_extensions = supported_mechanical_files
                /\ existing = {a_mechdat, b_rst, c_txt})
               => /\ r.valid_files = <<a_mechdat>>
                  /\ r.invalid_files = <<b_rst, c_txt>>
                  /\ r.warnings = << <<b_rst, c_txt>> >>

\* the call of the example was made
C21_Witness ==
    /\ vf_call.files = <<a_mechdat, b_rst, c_txt>>
    /\ vf_call.supported_extensions = supported_mechanical_files
    /\ existing = {a_mechdat, b_rst, c_txt}
    /\ vf_results # <<>>
    /\ vf_results[1].invalid_files = <<b_rst, c_txt>>

\* a list of which every path exists and ends in an extension of the rule
AllAccepted(files, extensions) ==
    \A k \in DOMAIN files :
        files[k] \in existing /\ FinalSuffixAccepted(files[k], extensions)

\* C22: a select_files call either leaves selected_files, the file list, the
\* launch button and the status text as they were, or puts the viewer in
\* FilesSelected with a non-empty list of accepted paths; so a call whose
\* accepted list is empty changes none of the four, and Idle is left only with
\* a non-empty accepted list.
C22_EmptySelectionChangesNothing ==
    [][/\ rv_select_files =>
            \/ UNCHANGED <<rv_selected_files, rv_file_tree, rv_interactive_btn,
                           rv_status_var>>
            \/ /\ rv_selected_files' # <<>>
               /\ AllAccepted(rv_selected_files', supported_result_files)
               /\ rv_file_tree' = rv_selected_files'
               /\ rv_interactive_btn' = "normal"
               /\ rv_status_var'[2] = Len(rv_selected_files')
       /\ mv_select_files =>
            \/ UNCHANGED <<mv_selected_files, mv_file_tree, mv_view_btn, mv_status_var>>
            \/ /\ mv_selected_files' # <<>>
               /\ AllAccepted(mv_selected_files', supported_mechanical_files)
               /\ mv_file_tree' = mv_selected_files'
               /\ mv_view_btn' = "normal"
               /\ mv_status_var'[2] = Len(mv_selected_files')]_vars

\* a selection pass in which every file was rejected was made on a viewer
\* that had files selected, and the selection is still there
C22_Witness ==
    /\ messagebox[1] = "showwarning" /\ messagebox[2] = "Invalid Files"
    /\ \/ rv_selected_files # <<>> /\ rv_interactive_btn = "normal"
       \/ mv_selected_files # <<>> /\ mv_view_btn = "normal"

\* the worker process has ended
WorkerExited == instance = "interactive_worker.py" /\ entry_run.pc = "exited"

\* the worker got one argument, no step raised and the user pressed Enter
CleanExitPath ==
    /\ Len(entry_call.argv) = 1
    /\ entry_call.raises = 0
    /\ entry_call.stdin_open

\* the calls of shutil.rmtree the worker made
Rmtrees == {k \in DOMAIN entry_run.events : entry_run.events[k][1] = "rmtree"}

\* C23: the worker calls shutil.rmtree at most once, only on its clean-exit
\* path, after the view was shown and Enter pressed, and on the directory
\* <basename>_Mech_Files next to the file; on that path it exits with status 0
\* whether the directory was removed, could not be removed (which is printed)
\* or was not there; on every other path it exits with status 1 and deletes
\* nothing.
C23_CleanupOnCleanExitOnly ==
    WorkerExited =>
        /\ Cardinality(Rmtrees) <= 1
        /\ CleanExitPath =>
              /\ entry_run.exit_status = {0}
              /\ Rmtrees # {} <=> entry_call.target = "directory"
              /\ \A k \in Rmtrees :
                    /\ k > EventIndex(entry_run.events, <<"call", "input">>)
                    /\ EventIndex(entry_run.events, <<"call", "input">>)
                          > EventIndex(entry_run.events, <<"call", "app.plot">>)
                    /\ entry_run.events[k][2].directory
                          = SubSeq(entry_call.argv[1], 1, Len(entry_call.argv[1]) - 10)
                    /\ entry_run.events[k][2].name = <<"a", "_Mech_Files">>
                    /\ entry_run.events[k][3] = "failed" <=> entry_call.rmtree_raises
                    /\ entry_call.rmtree_raises =>
                          EventIndex(entry_run.events, <<"print", "Error deleting folder">>) > k
        /\ ~CleanExitPath =>
              /\ entry_run.exit_status = {1}
              /\ Rmtrees = {}

\* the worker ended with status 0 after shutil.rmtree had failed on the
\* directory next to d/a.mechdat
C23_Witness ==
    /\ WorkerExited
    /\ entry_call.argv = <<d_a_mechdat>>
    /\ entry_run.exit_status = {0}
    /\ \E k \in Rmtrees : entry_run.events[k][3] = "failed"

\* the callbacks posted for launch i of the mechanical viewer and not yet run
QueuedFor(i) == {k \in DOMAIN after_queue : after_queue[k].launch = i}

\* the launches of the mechanical viewer whose worker got an exception that
\* is not a non-zero exit of the child, and whose callback has been run
RaisedAndHandled ==
    {i \in DOMAIN mv_launches :
        /\ mv_launches[i].pc \in {"except_end", "done"}
        /\ mv_launches[i].return_code = None
        /\ QueuedFor(i) = {}}

\* C24: an exception in the worker of the mechanical viewer that is not a
\* non-zero exit of the child ends in viewer_failed being run by the Tk main
\* loop with the message of the exception; no callback of the main loop
\* raises.
C24_WorkerExceptionsReported ==
    instance = "MechanicalViewer" =>
        /\ callback_exception = ""
        /\ \A i \in RaisedAndHandled :
              /\ mv_launches[i].report # None
              /\ \A r \in mv_launches[i].report :
                    /\ r.status = "Viewer launch failed"
                    /\ r.detail \in { <<"FileNotFoundError">>, <<"OSError">> }

\* C24 for the callbacks that run before the worker has left its except
\* clause
C24_WhileExceptionBound ==
    \A i \in RaisedAndHandled :
        mv_launches[i].pc = "except_end" =>
            /\ mv_launches[i].report # None
            /\ \A r \in mv_launches[i].report :
                  /\ r.status = "Viewer launch failed"
                  /\ r.detail = << CHOOSE e \in mv_launches[i].exception : TRUE >>

\* C25: the launching status of either viewer is eventually replaced, and
\* every launch of either viewer eventually tells the user how it ended.
C25_LaunchingEnds ==
    /\ (rv_status_var[1] = LaunchingText) ~> (rv_status_var[1] # LaunchingText)
    /\ \A i \in 1..MaxLaunches :
          /\ (i \in DOMAIN rv_launches) ~>
                (i \in DOMAIN rv_launches /\ rv_launches[i].report # None)
          /\ (i \in DOMAIN mv_launches) ~>
                (i \in DOMAIN mv_launches /\ mv_launches[i].report # None)

\* C25 for the launches of the result viewer whose script was written
C25_ResultLaunchesEnd ==
    \A i \in 1..MaxLaunches :
        (i \in DOMAIN rv_launches) ~>
            (i \in DOMAIN rv_launches /\ rv_launches[i].report # None)

\* a step that starts a launch of the result viewer: a script is generated
\* or a launch (worker thread, child) is added or an id is drawn
StartsResultLaunch ==
    \/ Len(rv_launches') > Len(rv_launches)
    \/ DOMAIN temp_files' \ DOMAIN temp_files # {}
    \/ uuid_count' # uuid_count
\* a step that starts a launch of the mechanical viewer
StartsMechanicalLaunch == Len(mv_launches') > Len(mv_launches)

\* C26: a launch trigger on an empty selected_files shows the warning and
\* changes neither the launches, nor the scripts, nor the status; a step that
\* starts a launch is taken with selected_files not empty, and the path of the
\* new launch (and of the script generated for it) is one of selected_files.
C26_LaunchOnlyFromFilesSelected ==
    [][ /\ (rv_open_interactive /\ rv_selected_files = <<>>) =>
              /\ messagebox' = <<"showwarning", "No Files", <<>> >>
              /\ UNCHANGED <<rv_status_var, rv_launches, temp_files, uuid_count>>
        /\ (mv_open_interactive_view /\ mv_selected_files = <<>>) =>
              /\ messagebox' = <<"showwarning", "No Files", <<>> >>
              /\ UNCHANGED <<mv_status_var, mv_launches, after_queue>>
        /\ StartsResultLaunch => rv_selected_files # <<>>
        /\ Len(rv_launches') > Len(rv_launches) =>
              LET l == rv_launches'[Len(rv_launches')]
              IN  /\ l.file_path \in Range(rv_selected_files)
                  /\ temp_files'[l.script_path].file_path \in Range(rv_selected_files)
        /\ StartsMechanicalLaunch =>
              /\ mv_selected_files # <<>>
              /\ mv_launches'[Len(mv_launches')].file_path \in Range(mv_selected_files)
        /\ (rv_status_var'[1] = LaunchingText /\ rv_status_var[1] # LaunchingText) =>
              rv_selected_files # <<>>
        /\ (mv_status_var'[1] = "Launching interactive 3D viewer..."
            /\ mv_status_var[1] # "Launching interactive 3D viewer...") =>
              mv_selected_files # <<>>
      ]_vars

\* a launch was made, the selection was cleared, and the next trigger was
\* answered with the warning
C26_Witness ==
    /\ mv_launches # <<>>
    /\ mv_selected_files = <<>>
    /\ messagebox = <<"showwarning", "No Files", <<>> >>

\* no step changes the request of a launch that exists: its data path, its
\* script path, the text of its script while the file is there, and the
\* script its child was started with
RequestFixed ==
    /\ \A i \in DOMAIN rv_launches :
          /\ rv_launches'[i].file_path = rv_launches[i].file_path
          /\ rv_launches'[i].script_path = rv_launches[i].script_path
          /\ rv_launches[i].child_script # None =>
                rv_launches'[i].child_script = rv_launches[i].child_script
          /\ LET sp == rv_launches[i].script_path
             IN  (sp \in DOMAIN temp_files /\ sp \in DOMAIN temp_files') =>
                    temp_files'[sp] = temp_files[sp]
    /\ \A i \in DOMAIN mv_launches :
          mv_launches'[i].file_path = mv_launches[i].file_path

\* the launches in flight whose request is no longer what the widgets show:
\* the selection or the result type was changed after the trigger
ResultChangedInFlight ==
    {i \in DOMAIN rv_launches :
        /\ rv_launches[i].report = None
        /\ \/ rv_launches[i].file_path # rv_selected_files[1]
           \/ TemplateOf(rv_launches[i].script_path) # script_kind(rv_result_type)}
MechanicalChangedInFlight ==
    {i \in DOMAIN mv_launches :
        /\ mv_launches[i].report = None
        /\ mv_launches[i].file_path \notin Range(mv_selected_files)}

\* C27: no step changes the request of an existing launch, and a launch
\* whose viewer had its selection or result type changed while it was in
\* flight still ends with its outcome reported.
C27_RequestFixedAndReported ==
    /\ [][RequestFixed]_vars
    /\ \A i \in 1..MaxLaunches :
          /\ (i \in ResultChangedInFlight) ~>
                (i \in DOMAIN rv_launches /\ rv_launches[i].report # None)
          /\ (i \in MechanicalChangedInFlight) ~>
                (i \in DOMAIN mv_launches /\ mv_launches[i].report # None)

\* C27 without the reporting of the mechanical viewer: the request is fixed
\* in both viewers and the changed-in-flight launches of the result viewer
\* end with a report
C27_ExceptMechanicalReport ==
    /\ [][RequestFixed]_vars
    /\ \A i \in 1..MaxLaunches :
          (i \in ResultChangedInFlight) ~>
              (i \in DOMAIN rv_launches /\ rv_launches[i].report # None)

\* the completion handlers of launch i of the mechanical viewer that ran or
\* are still to run: 1 for a report made, 1 for each callback in the queue
HandlersOf(i) ==
    Cardinality(QueuedFor(i)) + (IF mv_launches[i].report # None THEN 1 ELSE 0)

\* a report of the mechanical viewer, once made, is not made again
ReportedOnce ==
    \A i \in DOMAIN mv_launches :
        mv_launches[i].report # None =>
            /\ mv_launches'[i].report = mv_launches[i].report
            /\ QueuedFor(i)' = {}

\* C28: for every launch of the mechanical viewer at most one completion
\* handler is posted and run, a handler that ran is not run again, and
\* viewer_success is posted and run only for a child that exited with code 0.
C28_OneCompletionHandler ==
    /\ [](\A i \in DOMAIN mv_launches :
            /\ HandlersOf(i) <= 1
            /\ \A k \in QueuedFor(i) :
                  after_queue[k].fn = "viewer_success" =>
                      mv_launches[i].return_code = {0}
            /\ \A r \in mv_launches[i].report :
                  r.status = "Interactive 3D viewer completed successfully" =>
                      mv_launches[i].return_code = {0})
    /\ [][ReportedOnce]_vars

\* two launches have ended, one with viewer_success and one with
\* viewer_failed after a non-zero exit
C28_Witness ==
    \E i, j \in DOMAIN mv_launches :
        /\ mv_launches[i].report =
              {[status |-> "Interactive 3D viewer completed successfully", detail |-> <<>>]}
        /\ mv_launches[i].return_code = {0}
        /\ \E r \in mv_launches[j].report : r.status = "Viewer launch failed"
        /\ mv_launches[j].return_code \notin {None, {0}}

ReadyText == "Ready - Select a .mechdat file to begin"

\* the step empties the selection of the mechanical viewer
SelectionCleared ==
    (mv_selected_files # <<>> /\ mv_selected_files' = <<>>) =>
        /\ mv_file_tree' = <<>>
        /\ mv_tree_selection' = 0
        /\ mv_view_btn' = "disabled"
        /\ mv_status_var' = Status(ReadyText)

\* the step changes the selection of the mechanical viewer to a list that is
\* not empty: the list is what the dialog returned and validate_files
\* accepted, with nothing of the selection there was before
SelectionReplaced ==
    (mv_selected_files' # mv_selected_files /\ mv_selected_files' # <<>>) =>
        \E files \in DialogChoices(MechanicalDialogPaths) :
            mv_selected_files' =
                validate_files(files, supported_mechanical_files, existing).valid_files

\* a step of select_files that accepts files leaves exactly those files
SelectReplaces ==
    mv_select_files =>
        \/ UNCHANGED mv_selected_files
        \/ \E files \in DialogChoices(MechanicalDialogPaths) :
              mv_selected_files' =
                  validate_files(files, supported_mechanical_files, existing).valid_files

\* C29: in the mechanical viewer the launch button is enabled exactly when
\* selected_files is not empty; clear_selection leaves the viewer idle
\* (selected_files empty, file list empty, button disabled, ready status);
\* select_files with accepted files replaces the selection.
C29_ButtonFollowsSelection ==
    /\ [](instance = "MechanicalViewer" =>
            /\ (mv_view_btn = "normal") <=> (mv_selected_files # <<>>)
            /\ mv_selected_files = <<>> => mv_file_tree = <<>>)
    /\ [][ /\ SelectionCleared
           /\ SelectionReplaced
           /\ SelectReplaces
           /\ mv_clear_selection =>
                 /\ mv_selected_files' = <<>> /\ mv_file_tree' = <<>>
                 /\ mv_view_btn' = "disabled"
                 /\ mv_status_var' = Status(ReadyText) ]_vars

\* files are selected again after a launch has ended: the button is enabled
\* and the selection is the new list
C29_Witness ==
    /\ \E i \in DOMAIN mv_launches : mv_launches[i].report # None
    /\ mv_selected_files = <<a_mechdat>>
    /\ mv_view_btn = "normal"
    /\ mv_status_var[1] = "Selected file(s) - Ready for interactive view"

\* the basenames a result of validate_files warned about
WarnedNames(r) == IF r.warnings = <<>> THEN {} ELSE Range(r.warnings[1])

\* what FileManager.validate_files returns for the call the selector was given
FileManagerResult ==
    validate_files(vf_call.files, vf_call.supported_extensions, existing)

\* C30: for the same path list, extension list and filesystem
\* ANSYSFileSelector.validate_files returns the accepted sequence that
\* FileManager.validate_files returns and warns about the same set of
\* basenames; a path that does not exist is among the rejected of both.
C30_SnippetEquivalent ==
    \A n \in DOMAIN sel_results :
        /\ sel_results[n].valid_files = FileManagerResult.valid_files
        /\ WarnedNames(sel_results[n]) = WarnedNames(FileManagerResult)
        /\ \A p \in Range(vf_call.files) \ existing :
              /\ basename(p) \in WarnedNames(sel_results[n])
              /\ basename(p) \in WarnedNames(FileManagerResult)

\* C30 for the accepted sequence alone
C30_AcceptedEqual ==
    \A n \in DOMAIN sel_results :
        sel_results[n].valid_files = FileManagerResult.valid_files

=============================================================================
